---------------------------- MODULE Spec2Model ----------------------------
(***************************************************************************)
(* Future Skills Lab (src/models.py, src/Main.py): the career-orientation  *)
(* console program.  The module models                                     *)
(*   - Python's float arithmetic (IEEE-754 binary64, round to nearest,     *)
(*     ties to even) as used by Carreira.calcular_pontuacao,               *)
(*   - the hard-coded catalogs of SistemaOrientacao._carregar_dados_padrao,*)
(*   - the pure recommendation functions, and                              *)
(*   - SistemaOrientacao.menu_principal as a state machine that takes one  *)
(*     step per line read by input().                                      *)
(***************************************************************************)
EXTENDS Integers, Sequences, FiniteSets, TLC

(***************************************************************************)
(* Wide naturals.  A binary64 significand has 53 bits, more than an        *)
(* integer of the model checker holds, so a wide natural is a pair         *)
(* << hi, lo >> of value hi * 2^HalfBits + lo with 0 <= lo < 2^HalfBits.   *)
(* Every wide natural of the model is below 2^57.                          *)
(***************************************************************************)
HalfBits == 27

Half == 2^HalfBits

UNorm(hi, lo) == << hi + (lo \div Half), lo % Half >>

UAdd(a, b) == UNorm(a[1] + b[1], a[2] + b[2])

\* a - b for a >= b
USub(a, b) ==
    IF a[2] >= b[2] THEN << a[1] - b[1], a[2] - b[2] >>
    ELSE << a[1] - b[1] - 1, a[2] + Half - b[2] >>

\* -1, 0, 1 as a < b, a = b, a > b
UCmp(a, b) ==
    IF a[1] # b[1] THEN (IF a[1] < b[1] THEN -1 ELSE 1)
    ELSE IF a[2] # b[2] THEN (IF a[2] < b[2] THEN -1 ELSE 1)
    ELSE 0

\* a * c for a small c
UMulSmall(a, c) == UNorm(a[1] * c, a[2] * c)

\* a * 2^k (the result must fit)
RECURSIVE UShl(_, _)
UShl(a, k) ==
    IF k >= HalfBits THEN UShl(<< a[2], 0 >>, k - HalfBits)
    ELSE << a[1] * 2^k + (a[2] \div 2^(HalfBits - k)),
            (a[2] % 2^(HalfBits - k)) * 2^k >>

\* floor(a / 2^k)
RECURSIVE UShr(_, _)
UShr(a, k) ==
    IF k >= HalfBits THEN UShr(<< 0, a[1] >>, k - HalfBits)
    ELSE << a[1] \div 2^k,
            (a[2] \div 2^k) + (a[1] % 2^k) * 2^(HalfBits - k) >>

\* whether any of the k low bits of a is set
RECURSIVE ULowNonZero(_, _)
ULowNonZero(a, k) ==
    IF k >= HalfBits THEN a[2] # 0 \/ ULowNonZero(<< 0, a[1] >>, k - HalfBits)
    ELSE a[2] % 2^k # 0

\* bit k (0 = least significant) of a
UBit(a, k) == UShr(a, k)[2] % 2

RECURSIVE IntBitLen(_)
IntBitLen(n) == IF n = 0 THEN 0 ELSE 1 + IntBitLen(n \div 2)

UBitLen(a) == IF a[1] # 0 THEN HalfBits + IntBitLen(a[1]) ELSE IntBitLen(a[2])

\* << floor(r * 2^k / d), whether the division left a remainder >> for r < d,
\* by binary long division; q is the quotient so far
RECURSIVE UDivBits(_, _, _, _)
UDivBits(r, d, k, q) ==
    IF k = 0 THEN << q, r # << 0, 0 >> >>
    ELSE LET r2 == UMulSmall(r, 2)
             q2 == UMulSmall(q, 2)
         IN  IF q2[1] >= 0 /\ UCmp(r2, d) >= 0
             THEN UDivBits(USub(r2, d), d, k - 1, UAdd(q2, << 0, 1 >>))
             ELSE UDivBits(r2, d, k - 1, q2)

(***************************************************************************)
(* Python floats: IEEE-754 binary64, round to nearest, ties to even, for   *)
(* non-negative numbers (every operand of the program is a level 0..5, a   *)
(* positive weight, or 100).  A float is [m, e] of value m * 2^e with      *)
(* 2^52 <= m < 2^53, or m = << 0, 0 >> for 0.0.  The exponents of the      *)
(* program stay far from the subnormal and overflow ranges, which are not  *)
(* modelled.                                                               *)
(***************************************************************************)
MantBits == 53

FZero == [m |-> << 0, 0 >>, e |-> 0]

FIsZero(a) == a.m = << 0, 0 >>

\* The binary64 nearest to T * 2^e (plus a positive amount below one unit of
\* T when sticky), ties to even.  A sticky T has more than MantBits + 1 bits.
FRound(T, e, sticky) ==
    IF T = << 0, 0 >> THEN FZero
    ELSE LET n == UBitLen(T)
         IN  IF n <= MantBits
             THEN [m |-> UShl(T, MantBits - n), e |-> e - (MantBits - n)]
             ELSE LET s     == n - MantBits
                      q     == UShr(T, s)
                      half  == UBit(T, s - 1) = 1
                      lower == sticky \/ ULowNonZero(T, s - 1)
                      up    == half /\ (lower \/ q[2] % 2 = 1)
                      r     == IF up THEN UAdd(q, << 0, 1 >>) ELSE q
                  IN  IF UBitLen(r) > MantBits
                      THEN [m |-> UShr(r, 1), e |-> e + s + 1]
                      ELSE [m |-> r, e |-> e + s]

\* float(n) for a small non-negative int n (exact)
FFromInt(n) == FRound(<< 0, n >>, 0, FALSE)

\* a + b: the operand of the smaller exponent is shifted right keeping three
\* more bits, the last of them sticky
FAdd(a, b) ==
    IF FIsZero(a) THEN b
    ELSE IF FIsZero(b) THEN a
    ELSE LET x  == IF a.e >= b.e THEN a ELSE b
             y  == IF a.e >= b.e THEN b ELSE a
             d  == x.e - y.e
             y3 == UShl(y.m, 3)
         IN  FRound(UAdd(UShl(x.m, 3), UShr(y3, d)), x.e - 3, ULowNonZero(y3, d))

\* The four 14-bit limbs of a significand, least significant first
Limbs14(m) ==
    << m[2] % 2^14,
       (m[2] \div 2^14) + (m[1] % 2) * 2^13,
       (m[1] \div 2) % 2^14,
       m[1] \div 2^15 >>

\* a * b: the 106-bit product of the significands by columns of limb
\* products, then its bits from bit 49 up with the rest as the sticky bit
FMul(a, b) ==
    IF FIsZero(a) \/ FIsZero(b) THEN FZero
    ELSE LET x  == Limbs14(a.m)
             y  == Limbs14(b.m)
             B  == 2^14
             c0 == x[1] * y[1]
             c1 == x[1] * y[2] + x[2] * y[1] + (c0 \div B)
             c2 == x[1] * y[3] + x[2] * y[2] + x[3] * y[1] + (c1 \div B)
             c3 == x[1] * y[4] + x[2] * y[3] + x[3] * y[2] + x[4] * y[1] + (c2 \div B)
             c4 == x[2] * y[4] + x[3] * y[3] + x[4] * y[2] + (c3 \div B)
             c5 == x[3] * y[4] + x[4] * y[3] + (c4 \div B)
             c6 == x[4] * y[4] + (c5 \div B)
             p3 == c3 % B
             p4 == c4 % B
             p5 == c5 % B
             T  == << (p5 \div 2^6) + c6 * 2^8,
                      (p3 \div 2^7) + p4 * 2^7 + (p5 % 2^6) * 2^21 >>
             st == c0 % B # 0 \/ c1 % B # 0 \/ c2 % B # 0 \/ p3 % 2^7 # 0
         IN  FRound(T, a.e + b.e + 49, st)

\* a / b for b # 0.0: the quotient of the significands to MantBits + 2 or
\* MantBits + 3 bits and the remainder as the sticky bit
FDiv(a, b) ==
    IF FIsZero(a) THEN FZero
    ELSE IF b.m = << 2^(MantBits - 1 - HalfBits), 0 >>
    THEN [m |-> a.m, e |-> a.e - b.e - (MantBits - 1)]   \* b a power of two: exact
    ELSE LET k  == MantBits + 2
             ge == UCmp(a.m, b.m) >= 0
             qr == UDivBits(IF ge THEN USub(a.m, b.m) ELSE a.m, b.m, k,
                            IF ge THEN << 0, 1 >> ELSE << 0, 0 >>)
         IN  FRound(qr[1], a.e - b.e - k, qr[2])

\* -1, 0, 1 as a < b, a == b, a > b
FCmp(a, b) ==
    IF FIsZero(a) /\ FIsZero(b) THEN 0
    ELSE IF FIsZero(a) THEN -1
    ELSE IF FIsZero(b) THEN 1
    ELSE IF a.e # b.e THEN (IF a.e < b.e THEN -1 ELSE 1)
    ELSE UCmp(a.m, b.m)

\* a == b
FEq(a, b) == FCmp(a, b) = 0

\* The float of a decimal literal num/den (0.25 is 25/100): the binary64
\* nearest to the quotient
FLiteral(num, den) == FDiv(FFromInt(num), FFromInt(den))

\* a / b for two ints: Python's true division, correctly rounded
IntTrueDiv(a, b) == FDiv(FFromInt(a), FFromInt(b))

\* nivel / 5 for the levels 0..5: the binary64 quotients 0.0, 0.2, 0.4, 0.6,
\* 0.8, 1.0, each equal to IntTrueDiv(nivel, 5)
NivelSobre5 ==
    << [m |-> << 0, 0 >>, e |-> 0],
       [m |-> << 53687091, 26843546 >>, e |-> -55],
       [m |-> << 53687091, 26843546 >>, e |-> -54],
       [m |-> << 40265318, 53687091 >>, e |-> -53],
       [m |-> << 53687091, 26843546 >>, e |-> -53],
       [m |-> << 33554432, 0 >>, e |-> -52] >>

\* a variant of NivelNormalizado: the level divided by 4
NivelSobre4(nivel) == IntTrueDiv(nivel, 4)

\* nivel / 5
NivelNormalizado(nivel) ==
    IF nivel \in 0..5 THEN NivelSobre5[nivel + 1] ELSE IntTrueDiv(nivel, 5)

\* round(x * 10) for the ".1f" format: the number of tenths nearest to the
\* exact binary value, ties to even (for x below 2^20)
FTenths(x) ==
    IF FIsZero(x) THEN 0
    ELSE LET N     == UMulSmall(x.m, 10)
             s     == -x.e
             q     == UShr(N, s)
             half  == UBit(N, s - 1) = 1
             lower == ULowNonZero(N, s - 1)
             up    == half /\ (lower \/ q[2] % 2 = 1)
         IN  q[2] + (IF up THEN 1 ELSE 0)

\* f"{x:.1f}"
Format1f(x) == ToString(FTenths(x) \div 10) \o "." \o ToString(FTenths(x) % 10)

(***************************************************************************)
(* Python dicts keep insertion order: a dict is a sequence of <<key,       *)
(* value>> pairs with distinct keys.                                       *)
(***************************************************************************)
DictHas(d, k) == \E i \in 1..Len(d) : d[i][1] = k

\* d.get(k, default)
DictGet(d, k, default) ==
    IF DictHas(d, k)
    THEN d[CHOOSE i \in 1..Len(d) : d[i][1] = k][2]
    ELSE default

\* d[k] = v: an existing key keeps its position, a new key goes last
DictSet(d, k, v) ==
    IF DictHas(d, k)
    THEN [i \in 1..Len(d) |-> IF d[i][1] = k THEN << k, v >> ELSE d[i]]
    ELSE Append(d, << k, v >>)

DictKeys(d) == [i \in 1..Len(d) |-> d[i][1]]

DictValues(d) == [i \in 1..Len(d) |-> d[i][2]]

(***************************************************************************)
(* The catalogs of _carregar_dados_padrao.                                 *)
(***************************************************************************)
\* self.competencias: name -> Competencia(nome, categoria, descricao); the
\* value kept here is the categoria
Competencias ==
    << << "Lógica de Programação", "Técnica" >>,
       << "Criatividade", "Comportamental" >>,
       << "Colaboração", "Comportamental" >>,
       << "Adaptabilidade", "Comportamental" >>,
       << "Pensamento Analítico", "Técnica" >>,
       << "Inteligência Artificial", "Técnica" >>,
       << "Comunicação", "Comportamental" >>,
       << "Resolução de Problemas", "Comportamental" >>,
       << "Curiosidade", "Comportamental" >>,
       << "Liderança", "Comportamental" >> >>

\* self.trilhas_competencias
TrilhasCompetencias ==
    << << "Lógica de Programação",
          << "Curso introdutório de lógica no Codecademy",
             "Resolver desafios em plataformas como HackerRank ou LeetCode" >> >>,
       << "Criatividade",
          << "Praticar brainstormings e design thinking",
             "Participar de workshops de inovação" >> >>,
       << "Colaboração",
          << "Trabalhar em projetos em equipe",
             "Estudar metodologias ágeis" >> >>,
       << "Adaptabilidade",
          << "Participar de cursos sobre gestão de mudanças",
             "Exercitar flexibilidade em projetos multidisciplinares" >> >>,
       << "Pensamento Analítico",
          << "Aprender estatística básica e análise de dados",
             "Praticar interpretação de dashboards e gráficos" >> >>,
       << "Inteligência Artificial",
          << "Fazer um curso de introdução ao Machine Learning",
             "Explorar bibliotecas de IA como TensorFlow ou PyTorch" >> >>,
       << "Comunicação",
          << "Participar de debates e apresentações",
             "Estudar técnicas de storytelling" >> >>,
       << "Resolução de Problemas",
          << "Praticar lógica e quebra-cabeças",
             "Aplicar metodologias como Design Thinking" >> >>,
       << "Curiosidade",
          << "Ler artigos de diferentes áreas regularmente",
             "Explorar novos hobbies e ferramentas" >> >>,
       << "Liderança",
          << "Participar de cursos de gestão de equipes",
             "Ler biografias de líderes inspiradores" >> >> >>

\* A weight literal 0.dd of lines 154-230: the binary64 nearest to it, equal to
\* FLiteral(centesimos, 100)
Peso(centesimos) ==
    CASE centesimos = 10 -> [m |-> << 53687091, 26843546 >>, e |-> -56]
      [] centesimos = 15 -> [m |-> << 40265318, 53687091 >>, e |-> -55]
      [] centesimos = 20 -> [m |-> << 53687091, 26843546 >>, e |-> -55]
      [] centesimos = 25 -> [m |-> << 33554432, 0 >>, e |-> -54]
      [] centesimos = 30 -> [m |-> << 40265318, 53687091 >>, e |-> -54]
      [] centesimos = 40 -> [m |-> << 53687091, 26843546 >>, e |-> -54]
      [] OTHER -> FLiteral(centesimos, 100)

\* self.carreiras: Carreira(nome, competencias_requeridas, trilha)
Carreiras ==
    << [nome |-> "Cientista de Dados",
        competencias_requeridas |->
            << << "Lógica de Programação", Peso(25) >>,
               << "Pensamento Analítico", Peso(30) >>,
               << "Curiosidade", Peso(10) >>,
               << "Colaboração", Peso(10) >>,
               << "Resolução de Problemas", Peso(25) >> >>,
        trilha |-> << "Curso de programação em Python",
                      "Especialização em ciência de dados e estatística",
                      "Projetos práticos de análise de dados" >>],
       [nome |-> "Engenheiro de Software",
        competencias_requeridas |->
            << << "Lógica de Programação", Peso(30) >>,
               << "Resolução de Problemas", Peso(25) >>,
               << "Colaboração", Peso(15) >>,
               << "Adaptabilidade", Peso(15) >>,
               << "Comunicação", Peso(15) >> >>,
        trilha |-> << "Curso avançado de programação orientada a objetos",
                      "Prática de versionamento com Git e GitHub",
                      "Contribuição para projetos open source" >>],
       [nome |-> "Designer de UX",
        competencias_requeridas |->
            << << "Criatividade", Peso(30) >>,
               << "Comunicação", Peso(20) >>,
               << "Curiosidade", Peso(10) >>,
               << "Colaboração", Peso(20) >>,
               << "Adaptabilidade", Peso(20) >> >>,
        trilha |-> << "Cursos de design de interface e experiência do usuário",
                      "Estudos de usabilidade e comportamento do usuário",
                      "Construção de portfólio com projetos de design" >>],
       [nome |-> "Especialista em Cibersegurança",
        competencias_requeridas |->
            << << "Lógica de Programação", Peso(20) >>,
               << "Pensamento Analítico", Peso(30) >>,
               << "Resolução de Problemas", Peso(30) >>,
               << "Adaptabilidade", Peso(20) >> >>,
        trilha |-> << "Formação em segurança da informação",
                      "Certificações como CEH ou CompTIA Security+",
                      "Prática em ambientes de captura a bandeira (CTF)" >>],
       [nome |-> "Engenheiro de Machine Learning",
        competencias_requeridas |->
            << << "Lógica de Programação", Peso(20) >>,
               << "Inteligência Artificial", Peso(40) >>,
               << "Pensamento Analítico", Peso(25) >>,
               << "Curiosidade", Peso(15) >> >>,
        trilha |-> << "Curso intensivo de Machine Learning",
                      "Projetos de IA aplicados a problemas reais",
                      "Estudo de algoritmos avançados de aprendizado" >>],
       [nome |-> "Empreendedor Tecnológico",
        competencias_requeridas |->
            << << "Criatividade", Peso(30) >>,
               << "Liderança", Peso(30) >>,
               << "Adaptabilidade", Peso(20) >>,
               << "Comunicação", Peso(20) >> >>,
        trilha |-> << "Cursos de empreendedorismo e inovação",
                      "Participação em hackathons e incubadoras",
                      "Leitura sobre modelos de negócio e startups" >>] >>

(***************************************************************************)
(* Carreira.calcular_pontuacao                                             *)
(***************************************************************************)
\* sum(values): the int 0 plus each float in turn, left to right
RECURSIVE PySumFrom(_, _, _)
PySumFrom(valores, i, acc) ==
    IF i > Len(valores) THEN acc
    ELSE PySumFrom(valores, i + 1, FAdd(acc, valores[i]))

PySum(valores) == PySumFrom(valores, 1, FZero)

\* the loop of lines 54-56: total += (nivel / 5) * peso
RECURSIVE TotalFrom(_, _, _, _)
TotalFrom(requeridas, competencias_perfil, i, total) ==
    IF i > Len(requeridas) THEN total
    ELSE LET comp  == requeridas[i][1]
             peso  == requeridas[i][2]
             nivel == DictGet(competencias_perfil, comp, 0)
         IN  TotalFrom(requeridas, competencias_perfil, i + 1,
                       FAdd(total, FMul(NivelNormalizado(nivel), peso)))

\* a variant of calcular_pontuacao: the fraction is returned, not the percentage
PontuacaoSemPercentual(carreira, competencias_perfil) ==
    LET soma_pesos == PySum(DictValues(carreira.competencias_requeridas))
    IN  IF FEq(soma_pesos, FZero) THEN FZero
        ELSE FDiv(TotalFrom(carreira.competencias_requeridas,
                            competencias_perfil, 1, FZero),
                  soma_pesos)

calcular_pontuacao(carreira, competencias_perfil) ==
    LET soma_pesos == PySum(DictValues(carreira.competencias_requeridas))
    IN  IF FEq(soma_pesos, FZero) THEN FZero
        ELSE FMul(FDiv(TotalFrom(carreira.competencias_requeridas,
                                 competencias_perfil, 1, FZero),
                       soma_pesos),
                  FFromInt(100))

(***************************************************************************)
(* Perfil and the recommendation functions of SistemaOrientacao.           *)
(***************************************************************************)
\* Perfil(nome): competencias is an empty dict
Perfil(nome) == [nome |-> nome, competencias |-> << >>]

\* Perfil.adicionar_competencia
adicionar_competencia(perfil, competencia, nivel) ==
    [perfil EXCEPT !.competencias = DictSet(@, competencia, nivel)]

\* a variant of InserirOrdenado: an unstable sort, where one more item goes
\* before the items of equal key
InserirAntesDosIguais(ordenados, item) ==
    LET k == Cardinality({i \in 1..Len(ordenados) :
                            FCmp(ordenados[i][1], item[1]) > 0})
    IN  SubSeq(ordenados, 1, k) \o << item >> \o SubSeq(ordenados, k + 1, Len(ordenados))

\* list.sort(reverse=True, key=lambda item: item[0]) is stable: one more item
\* goes after every item whose key is not smaller
InserirOrdenado(ordenados, item) ==
    LET k == Cardinality({i \in 1..Len(ordenados) :
                            FCmp(ordenados[i][1], item[1]) >= 0})
    IN  SubSeq(ordenados, 1, k) \o << item >> \o SubSeq(ordenados, k + 1, Len(ordenados))

RECURSIVE OrdenarDecrescenteAte(_, _)
OrdenarDecrescenteAte(itens, n) ==
    IF n = 0 THEN << >>
    ELSE InserirOrdenado(OrdenarDecrescenteAte(itens, n - 1), itens[n])

OrdenarDecrescente(itens) == OrdenarDecrescenteAte(itens, Len(itens))

\* a variant of PyPrefixo: seq[-limite:], the last entries
PySufixo(seq, limite) ==
    IF limite <= 0 \/ limite >= Len(seq) THEN seq
    ELSE SubSeq(seq, Len(seq) - limite + 1, Len(seq))

\* seq[:limite]
PyPrefixo(seq, limite) ==
    IF limite >= 0
    THEN SubSeq(seq, 1, IF limite < Len(seq) THEN limite ELSE Len(seq))
    ELSE SubSeq(seq, 1, IF Len(seq) + limite > 0 THEN Len(seq) + limite ELSE 0)

\* lines 273-277: the (pontuacao, carreira) pairs, sorted; a career is kept
\* as its index in self.carreiras
ResultadosOrdenados(perfil) ==
    OrdenarDecrescente([c \in 1..Len(Carreiras) |->
        << calcular_pontuacao(Carreiras[c], perfil.competencias), c >>])

\* lines 280-282
MensagemCarreira(item) ==
    Carreiras[item[2]].nome \o " - Compatibilidade: " \o Format1f(item[1]) \o "%"

\* lines 278-283
MensagensCarreiras(resultados, limite) ==
    LET topo == PyPrefixo(resultados, limite)
    IN  [k \in 1..Len(topo) |-> MensagemCarreira(topo[k])]

LimitePadrao == 3

recomendar_carreiras(perfil, limite) ==
    MensagensCarreiras(ResultadosOrdenados(perfil), limite)

\* ", ".join(partes)
RECURSIVE Juntar(_, _)
Juntar(partes, sep) ==
    IF Len(partes) = 0 THEN ""
    ELSE IF Len(partes) = 1 THEN partes[1]
    ELSE partes[1] \o sep \o Juntar(Tail(partes), sep)

NivelBaixo == 3

\* a variant of TrilhasDesde: the test is nivel <= 3
RECURSIVE TrilhasAteNivel3(_, _)
TrilhasAteNivel3(competencias, i) ==
    IF i > Len(competencias) THEN << >>
    ELSE LET comp_nome == competencias[i][1]
             nivel     == competencias[i][2]
             trilhas   == DictGet(TrilhasCompetencias, comp_nome, << >>)
         IN  (IF nivel <= NivelBaixo /\ trilhas # << >>
              THEN << "Para melhorar em '" \o comp_nome \o "', considere: "
                      \o Juntar(trilhas, ", ") >>
              ELSE << >>)
             \o TrilhasAteNivel3(competencias, i + 1)

RECURSIVE TrilhasDesde(_, _)
TrilhasDesde(competencias, i) ==
    IF i > Len(competencias) THEN << >>
    ELSE LET comp_nome == competencias[i][1]
             nivel     == competencias[i][2]
             trilhas   == DictGet(TrilhasCompetencias, comp_nome, << >>)
         IN  (IF nivel < NivelBaixo /\ trilhas # << >>
              THEN << "Para melhorar em '" \o comp_nome \o "', considere: "
                      \o Juntar(trilhas, ", ") >>
              ELSE << >>)
             \o TrilhasDesde(competencias, i + 1)

recomendar_trilhas_aprimoramento(perfil) == TrilhasDesde(perfil.competencias, 1)

(***************************************************************************)
(* Lines of input.  A line is a sequence of characters, so that str.strip  *)
(* and int() are computed on the characters.                               *)
(***************************************************************************)
Espacos == {" ", "\t"}

Digitos == << "0", "1", "2", "3", "4", "5", "6", "7", "8", "9" >>

EhDigito(ch) == \E d \in 1..Len(Digitos) : Digitos[d] = ch

ValorDigito(ch) == (CHOOSE d \in 1..Len(Digitos) : Digitos[d] = ch) - 1

\* str.strip()
Strip(linha) ==
    LET dentro == {i \in 1..Len(linha) : linha[i] \notin Espacos}
    IN  IF dentro = {} THEN << >>
        ELSE SubSeq(linha,
                    CHOOSE i \in dentro : \A j \in dentro : i <= j,
                    CHOOSE i \in dentro : \A j \in dentro : i >= j)

\* the str of a sequence of characters
RECURSIVE Texto(_)
Texto(chars) == IF chars = << >> THEN "" ELSE Head(chars) \o Texto(Tail(chars))

RECURSIVE ValorDecimal(_, _)
ValorDecimal(digitos, acc) ==
    IF digitos = << >> THEN acc
    ELSE ValorDecimal(Tail(digitos), 10 * acc + ValorDigito(Head(digitos)))

\* int(s) for a stripped s: an optional sign and one or more digits, else
\* ValueError.  The result is [erro, valor], erro "" when there is none.
PyInt(s) ==
    LET sinal   == s # << >> /\ s[1] \in {"+", "-"}
        digitos == IF sinal THEN Tail(s) ELSE s
    IN  IF digitos # << >> /\ \A i \in 1..Len(digitos) : EhDigito(digitos[i])
        THEN [erro |-> "",
              valor |-> IF sinal /\ s[1] = "-"
                        THEN 0 - ValorDecimal(digitos, 0)
                        ELSE ValorDecimal(digitos, 0)]
        ELSE [erro |-> "ValueError", valor |-> 0]

\* lista[k] for a 0-based k: a negative k counts from the end, else
\* IndexError.  The result is [erro, pos], pos the 1-based position.
PyIndice(lista, k) ==
    IF 0 <= k /\ k < Len(lista) THEN [erro |-> "", pos |-> k + 1]
    ELSE IF k < 0 /\ k >= 0 - Len(lista) THEN [erro |-> "", pos |-> Len(lista) + k + 1]
    ELSE [erro |-> "IndexError", pos |-> 0]

(***************************************************************************)
(* The state.  menu_principal blocks in input(); a step of the machine     *)
(* reads one line and runs the code up to the next input() or to the end.  *)
(***************************************************************************)
VARIABLES
    pc,          \* where the program waits: "menu" (line 309), "nome" (311),
                 \* "nivel" (247), "indice3" (322), "indice4" (342); "fim" after
                 \* the break of line 363, "excecao" after an uncaught exception;
                 \* "funcoes" when the functions are called without the menu
    perfis,      \* self.perfis
    perfil,      \* the Perfil being registered (cadastrar_perfil), or the
                 \* argument of the functions called directly
    comp_idx,    \* position of comp_nome in self.competencias.keys() (line 244)
    entrada,     \* the last line read by input()
    prompt,      \* the prompt of the pending input()
    saida,       \* what print() wrote since the last line was read, one
                 \* element per call of print
    chamada,     \* the direct call in progress: [op, carreira, args]
    pontuacao,   \* what calcular_pontuacao returned to it
    resultados,  \* the local resultados of recomendar_carreiras after its sort
    mensagens,   \* what recomendar_carreiras or recomendar_trilhas returned
    ajustes      \* direct calls of adicionar_competencia made so far

vars == << pc, perfis, perfil, comp_idx, entrada, prompt, saida,
           chamada, pontuacao, resultados, mensagens, ajustes >>

varsFuncoes == << chamada, pontuacao, resultados, mensagens, ajustes >>

\* Bounds of the model
MaxPerfis == 2

MaxAjustes == 1

MaxLimite == 7

\* The texts of menu_principal, cadastrar_perfil and listar_perfis
Banner ==
    "\n========= Future Skills Lab =========\n1. Cadastrar novo perfil\n2. Listar perfis cadastrados\n3. Gerar recomendações de carreira\n4. Gerar trilhas de aprimoramento\n5. Sair\n"

PromptMenu == "Escolha uma opção: "

PromptNome == "Digite seu nome: "

PromptNivel(comp_nome) == "Informe seu nível em '" \o comp_nome \o "' (1-5): "

PromptIndice3 == "Informe o número do perfil para ver as recomendações: "

PromptIndice4 == "Informe o número do perfil para ver as trilhas de aprimoramento: "

MsgNivelInvalido == "Entrada inválida. Por favor, insira um número entre 1 e 5."

MsgPerfilInvalido == "Perfil inválido.\n"

MsgSemPerfis3 == "Cadastre um perfil antes de gerar recomendações.\n"

MsgSemPerfis4 == "Cadastre um perfil antes de gerar trilhas de aprimoramento.\n"

MsgOpcaoInvalida == "Opção inválida. Tente novamente.\n"

MsgSaindo == "Saindo... obrigado por utilizar o Future Skills Lab!"

MsgNenhumPerfil == "Nenhum perfil cadastrado até o momento.\n"

NivelMin == 1

NivelMax == 5

\* the except clauses: line 254, and lines 328 and 348
ExcecoesNivel == {"ValueError"}

\* a variant of ExcecoesIndice: except ValueError alone
ExcecoesSoValueError == {"ValueError"}

ExcecoesIndice == {"ValueError", "IndexError"}

SemPerfil == Perfil("")

\* what listar_perfis prints
listar_perfis(lista) ==
    IF lista = << >> THEN << MsgNenhumPerfil >>
    ELSE << "\nPerfis cadastrados:" >>
         \o [idx \in 1..Len(lista) |-> ToString(idx) \o ". " \o lista[idx].nome]
         \o << "" >>

(***************************************************************************)
(* The lines the modelled user types.  Every prompt is offered every line  *)
(* of Linhas; a registration is one of the forms NomesCadastro x Fichas    *)
(* (a name and the ten levels in the order they are asked), with any       *)
(* rejected lines in between.                                              *)
(***************************************************************************)
Linhas ==
    { << >>, << " " >>, << "a", "b", "c" >>, << "A", "n", "a" >>,
      << "0" >>, << "1" >>, << "2" >>, << "3" >>, << "4" >>, << "5" >>, << "6" >>,
      << "-", "1" >>, << "9", "9" >>, << " ", "5", " " >>, << "+", "5" >>,
      << "1", ".", "5" >> }

NomesCadastro == {"Ana", "5"}

FichaAna == << 5, 1, 5, 1, 5, 1, 1, 5, 5, 1 >>

FichaMista == << 2, 4, 2, 4, 3, 3, 1, 5, 2, 4 >>

Fichas == { FichaAna, FichaMista, [i \in 1..10 |-> 5] }

\* the competencias dict of a registration that answered ficha
CompetenciasDaFicha(ficha) ==
    [i \in 1..Len(ficha) |-> << Competencias[i][1], ficha[i] >>]

\* whether the user may type linha at the prompt for the competência at
\* position idx: a line that reads as a level of 1..5 continues one of the
\* forms; any other line may be typed at any time
RoteiroPermite(competencias, idx, linha) ==
    LET v == PyInt(Strip(linha))
    IN  (v.erro = "" /\ v.valor \in 1..5) =>
            \E ficha \in Fichas :
                /\ ficha[idx] = v.valor
                /\ \A i \in 1..Len(competencias) :
                       i < idx => competencias[i][2] = ficha[i]

(***************************************************************************)
(* menu_principal                                                          *)
(***************************************************************************)
Init ==
    /\ pc = "menu"
    /\ perfis = << >>
    /\ perfil = SemPerfil
    /\ comp_idx = 0
    /\ entrada = << >>
    /\ prompt = PromptMenu
    /\ saida = << Banner >>
    /\ chamada = [op |-> "", carreira |-> 0, args |-> << >>]
    /\ pontuacao = FZero
    /\ resultados = << >>
    /\ mensagens = << >>
    /\ ajustes = 0

\* back at line 309 after printing texto and the menu
VoltarAoMenu(texto) ==
    /\ pc' = "menu"
    /\ prompt' = PromptMenu
    /\ saida' = texto \o << Banner >>

\* an exception no except clause caught ends the process
NaoCapturada(erro) ==
    /\ pc' = "excecao"
    /\ prompt' = ""
    /\ saida' = << erro >>

\* escolha == "1" (lines 310-311)
Opcao1(linha) ==
    /\ Texto(Strip(linha)) = "1"
    /\ Len(perfis) < MaxPerfis
    /\ pc' = "nome"
    /\ prompt' = PromptNome
    /\ saida' = << >>
    /\ UNCHANGED << perfis, perfil, comp_idx >>

\* escolha == "2" (lines 314-315)
Opcao2(linha) ==
    /\ Texto(Strip(linha)) = "2"
    /\ VoltarAoMenu(listar_perfis(perfis))
    /\ UNCHANGED << perfis, perfil, comp_idx >>

\* a variant of Opcao3: without the test of lines 317-319
Opcao3SemTeste(linha) ==
    /\ Texto(Strip(linha)) = "3"
    /\ pc' = "indice3"
    /\ prompt' = PromptIndice3
    /\ saida' = listar_perfis(perfis)
    /\ UNCHANGED << perfis, perfil, comp_idx >>

\* escolha == "3" up to the input of line 322 (lines 316-322)
Opcao3(linha) ==
    /\ Texto(Strip(linha)) = "3"
    /\ IF perfis = << >>
       THEN VoltarAoMenu(<< MsgSemPerfis3 >>)
       ELSE /\ pc' = "indice3"
            /\ prompt' = PromptIndice3
            /\ saida' = listar_perfis(perfis)
    /\ UNCHANGED << perfis, perfil, comp_idx >>

\* escolha == "4" up to the input of line 342 (lines 336-342)
Opcao4(linha) ==
    /\ Texto(Strip(linha)) = "4"
    /\ IF perfis = << >>
       THEN VoltarAoMenu(<< MsgSemPerfis4 >>)
       ELSE /\ pc' = "indice4"
            /\ prompt' = PromptIndice4
            /\ saida' = listar_perfis(perfis)
    /\ UNCHANGED << perfis, perfil, comp_idx >>

\* escolha == "5" (lines 361-363)
Opcao5(linha) ==
    /\ Texto(Strip(linha)) = "5"
    /\ pc' = "fim"
    /\ prompt' = ""
    /\ saida' = << MsgSaindo >>
    /\ UNCHANGED << perfis, perfil, comp_idx >>

\* the else of lines 364-365
OpcaoInvalida(linha) ==
    /\ Texto(Strip(linha)) \notin {"1", "2", "3", "4", "5"}
    /\ VoltarAoMenu(<< MsgOpcaoInvalida >>)
    /\ UNCHANGED << perfis, perfil, comp_idx >>

\* a variant of InformarNome: without the test of line 312
InformarNomeSemTeste(linha) ==
    LET nome == Texto(Strip(linha))
    IN  /\ pc = "nome"
        /\ nome = "" \/ nome \in NomesCadastro
        /\ perfil' = Perfil(nome)
        /\ comp_idx' = 1
        /\ pc' = "nivel"
        /\ prompt' = PromptNivel(Competencias[1][1])
        /\ saida' = << "\nCadastro de competências para " \o nome \o ":" >>
        /\ UNCHANGED perfis

\* the input of line 311, then cadastrar_perfil up to its first input
InformarNome(linha) ==
    LET nome == Texto(Strip(linha))
    IN  /\ pc = "nome"
        /\ nome = "" \/ nome \in NomesCadastro
        /\ IF nome # ""
           THEN /\ perfil' = Perfil(nome)
                /\ comp_idx' = 1
                /\ pc' = "nivel"
                /\ prompt' = PromptNivel(Competencias[1][1])
                /\ saida' = << "\nCadastro de competências para " \o nome \o ":" >>
           ELSE /\ VoltarAoMenu(<< >>)
                /\ UNCHANGED << perfil, comp_idx >>
        /\ UNCHANGED perfis

\* a variant of LerNivel: the test is valor <= 5
LerNivelSemMinimo(linha) ==
    LET v == PyInt(Strip(linha))
    IN  IF v.erro # ""
        THEN [res |-> IF v.erro \in ExcecoesNivel THEN "rejeitado" ELSE v.erro,
              valor |-> 0]
        ELSE IF v.valor <= NivelMax
        THEN [res |-> "aceito", valor |-> v.valor]
        ELSE [res |-> "rejeitado", valor |-> 0]

\* what the try of lines 246-255 does with the line read: "aceito" with the
\* level, "rejeitado" (line 256 follows), or an exception not caught
LerNivel(linha) ==
    LET v == PyInt(Strip(linha))
    IN  IF v.erro # ""
        THEN [res |-> IF v.erro \in ExcecoesNivel THEN "rejeitado" ELSE v.erro,
              valor |-> 0]
        ELSE IF NivelMin <= v.valor /\ v.valor <= NivelMax
        THEN [res |-> "aceito", valor |-> v.valor]
        ELSE [res |-> "rejeitado", valor |-> 0]

\* one turn of the while of line 245, and what follows a break: the next
\* competência, or lines 257-259 and the return to the menu
InformarNivel(linha) ==
    LET lido  == LerNivel(linha)
        comp  == Competencias[comp_idx][1]
        novo  == adicionar_competencia(perfil, comp, lido.valor)
    IN  /\ pc = "nivel"
        /\ RoteiroPermite(perfil.competencias, comp_idx, linha)
        /\ IF lido.res = "aceito"
           THEN IF comp_idx < Len(Competencias)
                THEN /\ perfil' = novo
                     /\ comp_idx' = comp_idx + 1
                     /\ pc' = "nivel"
                     /\ prompt' = PromptNivel(Competencias[comp_idx + 1][1])
                     /\ saida' = << >>
                     /\ UNCHANGED perfis
                ELSE /\ perfis' = Append(perfis, novo)
                     /\ perfil' = SemPerfil
                     /\ comp_idx' = 0
                     /\ VoltarAoMenu(<< "\nPerfil '" \o novo.nome
                                        \o "' cadastrado com sucesso!\n" >>)
           ELSE IF lido.res = "rejeitado"
           THEN /\ pc' = "nivel"
                /\ prompt' = prompt
                /\ saida' = << MsgNivelInvalido >>
                /\ UNCHANGED << perfis, perfil, comp_idx >>
           ELSE /\ NaoCapturada(lido.res)
                /\ UNCHANGED << perfis, perfil, comp_idx >>

\* the try of lines 321-330 and 341-350: [erro, pos] of the profile chosen
EscolherPerfil(linha) ==
    LET v == PyInt(Strip(linha))
    IN  IF v.erro # "" THEN [erro |-> v.erro, pos |-> 0]
        ELSE PyIndice(perfis, v.valor - 1)

\* lines 331-335
ImprimirCarreiras(p) ==
    LET msgs == recomendar_carreiras(p, LimitePadrao)
    IN  << "\nRecomendações de carreira para " \o p.nome \o ":" >>
        \o [k \in 1..Len(msgs) |-> "- " \o msgs[k]]
        \o << "" >>

\* lines 351-360
ImprimirTrilhas(p) ==
    LET recomendacoes == recomendar_trilhas_aprimoramento(p)
    IN  IF recomendacoes = << >>
        THEN << p.nome \o " não possui competências com nota baixa. Parabéns!\n" >>
        ELSE << "\nTrilhas de aprimoramento para " \o p.nome \o ":" >>
             \o [k \in 1..Len(recomendacoes) |-> "- " \o recomendacoes[k]]
             \o << "" >>

\* the input of line 322 and lines 327-335
InformarIndiceCarreiras(linha) ==
    LET escolhido == EscolherPerfil(linha)
    IN  /\ pc = "indice3"
        /\ IF escolhido.erro = ""
           THEN VoltarAoMenu(ImprimirCarreiras(perfis[escolhido.pos]))
           ELSE IF escolhido.erro \in ExcecoesIndice
           THEN VoltarAoMenu(<< MsgPerfilInvalido >>)
           ELSE NaoCapturada(escolhido.erro)
        /\ UNCHANGED << perfis, perfil, comp_idx >>

\* the input of line 342 and lines 347-360
InformarIndiceTrilhas(linha) ==
    LET escolhido == EscolherPerfil(linha)
    IN  /\ pc = "indice4"
        /\ IF escolhido.erro = ""
           THEN VoltarAoMenu(ImprimirTrilhas(perfis[escolhido.pos]))
           ELSE IF escolhido.erro \in ExcecoesIndice
           THEN VoltarAoMenu(<< MsgPerfilInvalido >>)
           ELSE NaoCapturada(escolhido.erro)
        /\ UNCHANGED << perfis, perfil, comp_idx >>

\* input() returns linha; the functions' results are not touched by the menu
Ler(linha) ==
    /\ entrada' = linha
    /\ UNCHANGED varsFuncoes

Next ==
    \/ \E linha \in Linhas : pc = "menu" /\ Ler(linha) /\ Opcao1(linha)
    \/ \E linha \in Linhas : pc = "menu" /\ Ler(linha) /\ Opcao2(linha)
    \/ \E linha \in Linhas : pc = "menu" /\ Ler(linha) /\ Opcao3(linha)
    \/ \E linha \in Linhas : pc = "menu" /\ Ler(linha) /\ Opcao4(linha)
    \/ \E linha \in Linhas : pc = "menu" /\ Ler(linha) /\ Opcao5(linha)
    \/ \E linha \in Linhas : pc = "menu" /\ Ler(linha) /\ OpcaoInvalida(linha)
    \/ \E linha \in Linhas : Ler(linha) /\ InformarNome(linha)
    \/ \E linha \in Linhas : Ler(linha) /\ InformarNivel(linha)
    \/ \E linha \in Linhas : Ler(linha) /\ InformarIndiceCarreiras(linha)
    \/ \E linha \in Linhas : Ler(linha) /\ InformarIndiceTrilhas(linha)

Spec == Init /\ [][Next]_vars

(***************************************************************************)
(* The functions called directly, as a caller of the classes may: a        *)
(* Perfil is built with adicionar_competencia and handed to                *)
(* calcular_pontuacao, recomendar_carreiras and                            *)
(* recomendar_trilhas_aprimoramento.  Levels are the 1..5 the code         *)
(* documents (line 56); a competência may be missing from the profile.     *)
(***************************************************************************)
\* the profile that gives 5 to what carreira c requires and outros to the rest
\* of the catalog, or leaves the rest out when outros = 0
PerfilParaCarreira(c, outros) ==
    LET requeridas == Carreiras[c].competencias_requeridas
        todas == [i \in 1..Len(Competencias) |->
                    << Competencias[i][1],
                       IF DictHas(requeridas, Competencias[i][1]) THEN 5 ELSE outros >>]
        Avaliada(par) == par[2] # 0
    IN  [nome |-> Carreiras[c].nome, competencias |-> SelectSeq(todas, Avaliada)]

\* a profile filled in the reverse of the catalog's order
PerfilInvertido ==
    [nome |-> "Invertido",
     competencias |-> [i \in 1..Len(Competencias) |->
                          << Competencias[Len(Competencias) + 1 - i][1],
                             1 + (i % 4) >>]]

PerfisDeEntrada ==
    { Perfil("Novo"), PerfilInvertido,
      [nome |-> "Parcial",
       competencias |-> CompetenciasDaFicha(SubSeq(FichaMista, 1, 5))] }
    \cup { [nome |-> "Ficha", competencias |-> CompetenciasDaFicha(f)] : f \in Fichas }
    \cup { PerfilParaCarreira(c, outros) : c \in 1..Len(Carreiras), outros \in {0, 1, 3} }

\* "Oratória" is in neither the catalog nor the index of trilhas
CompetenciasDeAjuste == {"Oratória", "Lógica de Programação"}

SemChamada == [op |-> "", carreira |-> 0, args |-> << >>]

InitFuncoes ==
    /\ pc = "funcoes"
    /\ perfis = << >>
    /\ perfil \in PerfisDeEntrada
    /\ comp_idx = 0
    /\ entrada = << >>
    /\ prompt = ""
    /\ saida = << >>
    /\ chamada = SemChamada
    /\ pontuacao = FZero
    /\ resultados = << >>
    /\ mensagens = << >>
    /\ ajustes = 0

\* perfil.adicionar_competencia(competencia, nivel)
AdicionarCompetencia ==
    /\ pc = "funcoes"
    /\ ajustes < MaxAjustes
    /\ \E competencia \in CompetenciasDeAjuste, nivel \in NivelMin..NivelMax :
           perfil' = adicionar_competencia(perfil, competencia, nivel)
    /\ ajustes' = ajustes + 1
    /\ UNCHANGED << pc, perfis, comp_idx, entrada, prompt, saida,
                    chamada, pontuacao, resultados, mensagens >>

\* carreira.calcular_pontuacao(perfil.competencias)
CalcularPontuacao ==
    /\ pc = "funcoes"
    /\ \E c \in 1..Len(Carreiras) :
           /\ chamada' = [op |-> "calcular_pontuacao", carreira |-> c, args |-> << >>]
           /\ pontuacao' = calcular_pontuacao(Carreiras[c], perfil.competencias)
    /\ pc' = "retorno"
    /\ UNCHANGED << perfis, perfil, comp_idx, entrada, prompt, saida,
                    resultados, mensagens, ajustes >>

\* recomendar_carreiras(perfil, *args), and what its body leaves in
\* resultados; args is << >> or << limite >>
ChamarRecomendarCarreiras(args) ==
    LET limite == IF args = << >> THEN LimitePadrao ELSE args[1]
    IN  /\ pc = "funcoes"
        /\ chamada' = [op |-> "recomendar_carreiras", carreira |-> 0, args |-> args]
        /\ resultados' = ResultadosOrdenados(perfil)
        /\ mensagens' = MensagensCarreiras(resultados', limite)
        /\ pc' = "retorno"
        /\ UNCHANGED << perfis, perfil, comp_idx, entrada, prompt, saida,
                        pontuacao, ajustes >>

RecomendarCarreiras ==
    \E limite \in 0..MaxLimite : ChamarRecomendarCarreiras(<< limite >>)

\* recomendar_carreiras(perfil): limite takes its default
RecomendarCarreirasPadrao == ChamarRecomendarCarreiras(<< >>)

\* recomendar_trilhas_aprimoramento(perfil)
RecomendarTrilhas ==
    /\ pc = "funcoes"
    /\ chamada' = [op |-> "recomendar_trilhas_aprimoramento", carreira |-> 0,
                   args |-> << >>]
    /\ mensagens' = recomendar_trilhas_aprimoramento(perfil)
    /\ pc' = "retorno"
    /\ UNCHANGED << perfis, perfil, comp_idx, entrada, prompt, saida,
                    pontuacao, resultados, ajustes >>

\* the caller has used the result
Retornar ==
    /\ pc = "retorno"
    /\ pc' = "funcoes"
    /\ chamada' = SemChamada
    /\ pontuacao' = FZero
    /\ resultados' = << >>
    /\ mensagens' = << >>
    /\ UNCHANGED << perfis, perfil, comp_idx, entrada, prompt, saida, ajustes >>

NextFuncoes ==
    \/ AdicionarCompetencia
    \/ CalcularPontuacao
    \/ RecomendarCarreiras
    \/ RecomendarCarreirasPadrao
    \/ RecomendarTrilhas
    \/ Retornar

SpecMotor == InitFuncoes /\ [][NextFuncoes]_vars

(***************************************************************************)
(* Properties of menu_principal, stated of Spec.                           *)
(***************************************************************************)
\* what the program read as escolha, nome or number in the step taken
Lido == Strip(entrada')

Terminais == {"fim", "excecao"}

\* the line is no integer, or an integer outside 1..n for the n profiles stored
ForaDe1aN(linha) ==
    LET v == PyInt(Strip(linha))
    IN  v.erro # "" \/ v.valor \notin 1..Len(perfis)

\* C1: at the prompt for a profile number of choices 3 and 4, with at least
\* one profile stored, a line that is not an integer of 1..n (0 and the
\* negative integers among them) prints "Perfil inválido." and nothing of
\* any profile, asks nothing again and goes back to the main menu.
C1_IndiceForaDe1aNRecusado ==
    [][ (pc \in {"indice3", "indice4"} /\ Len(perfis) >= 1 /\ ForaDe1aN(entrada'))
            => /\ saida' = << MsgPerfilInvalido, Banner >>
               /\ pc' = "menu"
               /\ prompt' = PromptMenu ]_vars

\* C2: the loop starts at the main menu; it ends only by "5" read at the
\* main menu; every other line at the main menu stays there or enters a
\* sub-flow; every sub-flow step stays in its sub-flow or goes back to the
\* main menu, whatever the line, "5" included; nothing follows the end.
C2_FimSoPelaOpcao5 ==
    /\ pc = "menu"
    /\ [][ /\ pc \notin Terminais
           /\ pc' \in Terminais => (pc = "menu" /\ Texto(Lido) = "5" /\ pc' = "fim")
           /\ (pc = "menu" /\ Texto(Lido) = "5") => pc' = "fim"
           /\ (pc = "menu" /\ Texto(Lido) \notin {"1", "3", "4", "5"})
                  => (pc' = "menu" /\ prompt' = PromptMenu)
           /\ (pc = "menu" /\ Texto(Lido) = "1") => pc' = "nome"
           /\ (pc = "menu" /\ Texto(Lido) = "3") => pc' \in {"menu", "indice3"}
           /\ (pc = "menu" /\ Texto(Lido) = "4") => pc' \in {"menu", "indice4"}
           /\ pc = "nome" => pc' \in {"menu", "nivel"}
           /\ pc = "nivel" => pc' \in {"menu", "nivel"}
           /\ pc \in {"indice3", "indice4"} => pc' = "menu"
           /\ pc' = "menu" => (prompt' = PromptMenu /\ saida'[Len(saida')] = Banner)
         ]_vars

\* the loop ended after a "5" was given as a name and a "5" as a profile number
C2_Witness ==
    /\ pc = "fim"
    /\ saida = << MsgSaindo >>
    /\ \E i \in 1..Len(perfis) : perfis[i].nome = "5"

\* the line reads as an integer of 1..5
NivelDe1a5(linha) ==
    LET v == PyInt(Strip(linha))
    IN  v.erro = "" /\ v.valor \in 1..5

\* every stored profile gives every competência of the catalog, in the
\* catalog's order, a level of 1..5
PerfisCompletos ==
    \A i \in 1..Len(perfis) :
        /\ DictKeys(perfis[i].competencias) = DictKeys(Competencias)
        /\ \A k \in 1..Len(perfis[i].competencias) :
               perfis[i].competencias[k][2] \in 1..5

\* C3: at a prompt for a level the line is accepted if and only if it reads
\* as an integer of 1..5: then that level is recorded for the competência
\* asked and the next is asked (or the profile is stored); any other line
\* prints the error and asks the same competência again, with nothing
\* changed.  Every stored profile gives every competência of the catalog,
\* in the catalog's order, a level of 1..5.
C3_NivelAceitoSseDe1a5 ==
    /\ PerfisCompletos
    /\ [][ /\ PerfisCompletos'
           /\ pc = "nivel" =>
                LET v == PyInt(Lido)
                    comp == Competencias[comp_idx][1]
                    com_nivel == Append(perfil.competencias, << comp, v.valor >>)
                IN  IF NivelDe1a5(entrada')
                    THEN /\ saida' # << MsgNivelInvalido >>
                         /\ IF comp_idx < Len(Competencias)
                            THEN /\ pc' = "nivel"
                                 /\ comp_idx' = comp_idx + 1
                                 /\ prompt' = PromptNivel(Competencias[comp_idx + 1][1])
                                 /\ perfil'.competencias = com_nivel
                                 /\ perfis' = perfis
                            ELSE /\ pc' = "menu"
                                 /\ perfis' = Append(perfis,
                                                [nome |-> perfil.nome,
                                                 competencias |-> com_nivel])
                    ELSE /\ pc' = "nivel"
                         /\ saida' = << MsgNivelInvalido >>
                         /\ prompt' = prompt
                         /\ comp_idx' = comp_idx
                         /\ perfil' = perfil
                         /\ perfis' = perfis
         ]_vars

\* "0" was refused for the fourth competência of a second registration
C3_Witness ==
    /\ pc = "nivel"
    /\ comp_idx = 4
    /\ Texto(entrada) = "0"
    /\ saida = << MsgNivelInvalido >>
    /\ Len(perfis) = 1

\* C8: with no profile stored, choice 3 or 4 prints its message and the menu
\* only (no list of profiles) and the program waits at the main menu prompt:
\* the next line is read as a menu choice, none as a profile number.
C8_SemPerfisVoltaAoMenu ==
    [][ (pc = "menu" /\ perfis = << >> /\ Texto(Lido) \in {"3", "4"})
            => /\ pc' = "menu"
               /\ prompt' = PromptMenu
               /\ saida' = << IF Texto(Lido) = "3" THEN MsgSemPerfis3
                                                   ELSE MsgSemPerfis4,
                              Banner >>
               /\ perfis' = << >> ]_vars

\* choice 4 was taken with no profile stored
C8_Witness ==
    /\ pc = "menu"
    /\ perfis = << >>
    /\ Texto(entrada) = "4"
    /\ saida = << MsgSemPerfis4, Banner >>

\* C9: self.perfis changes only in the step that reads the accepted level of
\* the last competência of a registration with a non-empty stripped name,
\* which appends that one profile; an empty name at choice 1 goes back to
\* the menu with no profile and nothing printed but the menu; every other
\* step (choices 2 to 5, invalid choices, refused levels, profile numbers)
\* leaves self.perfis as it was.
C9_PerfisSoMudaAoConcluirCadastro ==
    [][ /\ perfis' # perfis =>
               /\ pc = "nivel" /\ comp_idx = Len(Competencias) /\ pc' = "menu"
               /\ NivelDe1a5(entrada')
               /\ perfil.nome # ""
               /\ Len(perfis') = Len(perfis) + 1
               /\ SubSeq(perfis', 1, Len(perfis)) = perfis
               /\ perfis'[Len(perfis')].nome = perfil.nome
               /\ SubSeq(perfis'[Len(perfis')].competencias, 1, comp_idx - 1)
                      = perfil.competencias
        /\ pc = "nome" =>
               IF Lido = << >>
               THEN pc' = "menu" /\ saida' = << Banner >> /\ perfis' = perfis
               ELSE pc' = "nivel" /\ perfil' = Perfil(Texto(Lido)) /\ perfis' = perfis
        /\ (pc = "nivel" /\ ~NivelDe1a5(entrada')) => perfis' = perfis
        /\ pc \in {"menu", "indice3", "indice4"} => perfis' = perfis
      ]_vars

\* a second profile, named "5", was appended after the first
C9_Witness ==
    /\ pc = "menu"
    /\ Len(perfis) = 2
    /\ perfis[1].nome = "Ana"
    /\ perfis[2].nome = "5"
    /\ saida = << "\nPerfil '5' cadastrado com sucesso!\n", Banner >>

(***************************************************************************)
(* Properties of the functions, stated of SpecMotor.                       *)
(***************************************************************************)
\* 100.0
Cem == FFromInt(100)

EntreZeroECem(x) == FCmp(x, FZero) >= 0 /\ FCmp(x, Cem) <= 0

\* C4: the score calcular_pontuacao returns is in [0, 100], for every
\* profile (levels of 1..5, competências possibly missing, the profiles a
\* registration stores among them) and every career; so is every score in
\* the pairs recomendar_carreiras builds.
C4_PontuacaoEntre0e100 ==
    /\ chamada.op = "calcular_pontuacao" => EntreZeroECem(pontuacao)
    /\ chamada.op = "recomendar_carreiras" =>
           \A k \in 1..Len(resultados) : EntreZeroECem(resultados[k][1])

\* a score strictly between the ends was returned for a profile that lacks
\* some of the competências the career requires
C4_Witness ==
    /\ chamada.op = "calcular_pontuacao"
    /\ FCmp(pontuacao, FZero) > 0
    /\ FCmp(pontuacao, Cem) < 0
    /\ \E i \in 1..Len(Carreiras[chamada.carreira].competencias_requeridas) :
           ~DictHas(perfil.competencias,
                    Carreiras[chamada.carreira].competencias_requeridas[i][1])

\* the limite of the call of recomendar_carreiras in progress
LimiteDaChamada == IF chamada.args = << >> THEN 3 ELSE chamada.args[1]

\* C5: recomendar_carreiras(perfil, limite), limite >= 0 and 3 when omitted,
\* returns the messages of the first min(limite, number of careers) entries
\* of the catalog's careers, each with its score, ordered by descending
\* score, careers of equal score in the catalog's order.
C5_MelhoresCarreirasEmOrdemEstavel ==
    chamada.op = "recomendar_carreiras" =>
        LET n == Len(Carreiras)
        IN  /\ Len(resultados) = n
            /\ {resultados[k][2] : k \in 1..n} = 1..n
            /\ \A k \in 1..n :
                   FEq(resultados[k][1],
                       calcular_pontuacao(Carreiras[resultados[k][2]],
                                          perfil.competencias))
            /\ \A j, k \in 1..n :
                   j < k =>
                       /\ FCmp(resultados[j][1], resultados[k][1]) >= 0
                       /\ FEq(resultados[j][1], resultados[k][1])
                              => resultados[j][2] < resultados[k][2]
            /\ Len(mensagens) = IF LimiteDaChamada < n THEN LimiteDaChamada ELSE n
            /\ \A k \in 1..Len(mensagens) :
                   mensagens[k] = Carreiras[resultados[k][2]].nome
                                  \o " - Compatibilidade: "
                                  \o Format1f(resultados[k][1]) \o "%"

\* limite was omitted, three messages came back, and careers of equal score
\* as well as careers of different scores are among the first three
C5_Witness ==
    /\ chamada.op = "recomendar_carreiras"
    /\ chamada.args = << >>
    /\ Len(mensagens) = 3
    /\ FEq(resultados[1][1], resultados[2][1])
    /\ FCmp(resultados[2][1], resultados[3][1]) > 0

\* the suggestion text for a competência
SugestaoPara(comp_nome) ==
    "Para melhorar em '" \o comp_nome \o "', considere: "
    \o Juntar(DictGet(TrilhasCompetencias, comp_nome, << >>), ", ")

\* C6: recomendar_trilhas_aprimoramento(perfil) returns one suggestion for
\* each competência the profile records with a level below 3 and that has a
\* non-empty entry in trilhas_competencias, in the order the profile
\* recorded them, and nothing else: none for a level of 3 or more, none for
\* a competência without trilhas, none for a competência with no level.
C6_UmaSugestaoPorNivelBaixo ==
    chamada.op = "recomendar_trilhas_aprimoramento" =>
        LET ComSugestao(par) ==
                /\ par[2] < 3
                /\ DictGet(TrilhasCompetencias, par[1], << >>) # << >>
            baixas == SelectSeq(perfil.competencias, ComSugestao)
        IN  mensagens = [k \in 1..Len(baixas) |-> SugestaoPara(baixas[k][1])]

\* suggestions came back for a profile that has a level below 3 for a
\* competência without trilhas, a level of exactly 3, and no level for some
\* competência of the catalog
C6_Witness ==
    /\ chamada.op = "recomendar_trilhas_aprimoramento"
    /\ Len(mensagens) >= 1
    /\ DictGet(perfil.competencias, "Oratória", 0) \in {1, 2}
    /\ \E i \in 1..Len(perfil.competencias) : perfil.competencias[i][2] = 3
    /\ \E i \in 1..Len(Competencias) :
           ~DictHas(perfil.competencias, Competencias[i][1])

\* the profile gives 5 to every competência that career c requires
TudoCinco(c) ==
    \A i \in 1..Len(Carreiras[c].competencias_requeridas) :
        DictGet(perfil.competencias,
                Carreiras[c].competencias_requeridas[i][1], 0) = 5

\* C7: for every career of the catalog, a profile that gives 5 to every
\* competência the career requires gets exactly 100.0 from
\* calcular_pontuacao, whatever it records for the other competências.
C7_TudoCincoDaCem ==
    (chamada.op = "calcular_pontuacao" /\ TudoCinco(chamada.carreira))
        => FEq(pontuacao, Cem)

\* exactly 100.0 was returned for the last career of the catalog to a
\* profile that gives 5 to what it requires, 1 to another competência, and
\* a level to a competência outside the catalog
C7_Witness ==
    /\ chamada.op = "calcular_pontuacao"
    /\ chamada.carreira = Len(Carreiras)
    /\ TudoCinco(chamada.carreira)
    /\ FEq(pontuacao, Cem)
    /\ DictGet(perfil.competencias, "Pensamento Analítico", 0) = 1
    /\ DictHas(perfil.competencias, "Oratória")

\* the profile of the scenario: 5 for Lógica de Programação, Pensamento
\* Analítico, Curiosidade, Colaboração and Resolução de Problemas, 1 for
\* every other competência of the catalog
PerfilDoCenario ==
    \A i \in 1..Len(Competencias) :
        DictGet(perfil.competencias, Competencias[i][1], 0) =
            IF Competencias[i][1] \in {"Lógica de Programação", "Pensamento Analítico",
                                       "Curiosidade", "Colaboração",
                                       "Resolução de Problemas"}
            THEN 5 ELSE 1

\* C10: for the profile of the scenario, recomendar_carreiras puts
\* "Cientista de Dados" first with a score of 100.0, shown as "100.0%", and
\* every other career has a strictly smaller score.
C10_CientistaDeDadosPrimeiro ==
    (chamada.op = "recomendar_carreiras" /\ PerfilDoCenario) =>
        /\ Carreiras[resultados[1][2]].nome = "Cientista de Dados"
        /\ FEq(resultados[1][1], Cem)
        /\ \A k \in 2..Len(resultados) : FCmp(resultados[k][1], Cem) < 0
        /\ Len(mensagens) >= 1 =>
               mensagens[1] = "Cientista de Dados - Compatibilidade: 100.0%"

\* the one best career was asked for the profile of the scenario
C10_Witness ==
    /\ chamada.op = "recomendar_carreiras"
    /\ PerfilDoCenario
    /\ chamada.args = << 1 >>
    /\ mensagens = << "Cientista de Dados - Compatibilidade: 100.0%" >>

=============================================================================
